---- MODULE Spec2Model ----
(***************************************************************************)
(* Fuse (src/src/index.js): the search orchestrator of the fuzzy-search     *)
(* library.  search(pattern) prepares the matchers, walks the collection   *)
(* (_search / _analyze), aggregates the per-field scores (_computeScore),  *)
(* sorts (_sort) and formats (_format) the results.                        *)
(*                                                                         *)
(* The Bitap matcher (./bitap) and the property accessor                   *)
(* (./helpers/deep_value) are collaborators whose code is not in           *)
(* src/src/index.js.  A text is represented by the outcomes the matcher    *)
(* gives for it under the current pattern: the full-text outcome and, per  *)
(* word of the text, the outcome of every query token.                     *)
(***************************************************************************)
EXTENDS Integers, Sequences, FiniteSets, TLC

VARIABLES
  list,        \* this.list: the collection handed to the constructor
  options,     \* this.options
  pattern,     \* the pattern of the search call: its number of tokens
  pc,          \* position of the search call
  i,           \* _search: index of the record being processed (1-based)
  j,           \* _search: index of the key being processed (1-based)
  heap,        \* the result entries allocated by this _search run
  results,     \* _search: results, a sequence of references into heap
  resultMap,   \* _search: resultMap, record index -> reference (0: unset)
  weights,     \* _search: weights
  ret,         \* the value returned by search
  run,         \* number of the search call on the collection now set
  prevRet      \* the value the previous search call returned

vars == <<list, options, pattern, pc, i, j, heap, results, resultMap, weights,
          ret, run, prevRet>>

---------------------------------------------------------------------------
(* Bounds of the model *)
MaxList == 2
MaxWords == 2
MaxTokens == 2

---------------------------------------------------------------------------
(* JavaScript numbers: IEEE 754 doubles, with the arithmetic rounded to       *)
(* nearest, ties to even, as the engine computes it.  A finite double is      *)
(* (-1)^neg * m * 2^e, where the magnitude m is a natural number below 2^53   *)
(* written in base 2^15, least significant digit first, and m is odd (or m is *)
(* empty and e is 0 for the two zeros), so that equal numbers are equal       *)
(* records.  NaN and the two infinities have their own class.                 *)

Base == 2 ^ 15

Max(a, b) == IF a >= b THEN a ELSE b
Min(a, b) == IF a <= b THEN a ELSE b

RECURSIVE Trim(_)
\* without the most significant digits that are 0
Trim(m) ==
  IF Len(m) > 0 /\ m[Len(m)] = 0 THEN Trim(SubSeq(m, 1, Len(m) - 1)) ELSE m

RECURSIVE MulSmall(_, _, _)
\* m * c + carry, for c and carry below Base
MulSmall(m, c, carry) ==
  IF Len(m) = 0 THEN (IF carry = 0 THEN <<>> ELSE <<carry>>)
  ELSE LET v == m[1] * c + carry
       IN <<v % Base>> \o MulSmall(Tail(m), c, v \div Base)

RECURSIVE DivSmall(_, _)
\* quotient and remainder of m by c, for 0 < c <= Base (the quotient untrimmed)
DivSmall(m, c) ==
  IF Len(m) = 0 THEN [q |-> <<>>, r |-> 0]
  ELSE LET hi == DivSmall(Tail(m), c)
           v == hi.r * Base + m[1]
       IN [q |-> <<v \div c>> \o hi.q, r |-> v % c]

RECURSIVE AddMag(_, _, _)
\* a + b + carry
AddMag(a, b, carry) ==
  IF Len(a) = 0 /\ Len(b) = 0 THEN (IF carry = 0 THEN <<>> ELSE <<carry>>)
  ELSE LET x == IF Len(a) = 0 THEN 0 ELSE a[1]
           y == IF Len(b) = 0 THEN 0 ELSE b[1]
           v == x + y + carry
       IN <<v % Base>> \o AddMag(IF Len(a) = 0 THEN a ELSE Tail(a),
                                 IF Len(b) = 0 THEN b ELSE Tail(b), v \div Base)

RECURSIVE SubDigits(_, _, _)
\* a - b - borrow for a >= b + borrow (untrimmed)
SubDigits(a, b, borrow) ==
  IF Len(a) = 0 THEN <<>>
  ELSE LET y == IF Len(b) = 0 THEN 0 ELSE b[1]
           v == a[1] - y - borrow
       IN <<IF v < 0 THEN v + Base ELSE v>>
          \o SubDigits(Tail(a), IF Len(b) = 0 THEN b ELSE Tail(b),
                       IF v < 0 THEN 1 ELSE 0)

RECURSIVE CmpDigits(_, _, _)
\* the sign of a - b for magnitudes of the same length, from digit k down
CmpDigits(a, b, k) ==
  IF k = 0 THEN 0
  ELSE IF a[k] < b[k] THEN -1
  ELSE IF a[k] > b[k] THEN 1
  ELSE CmpDigits(a, b, k - 1)

\* the sign of a - b
CmpMag(a, b) ==
  IF Len(a) < Len(b) THEN -1
  ELSE IF Len(a) > Len(b) THEN 1
  ELSE CmpDigits(a, b, Len(a))

RECURSIVE MulMag(_, _)
\* a * b
MulMag(a, b) ==
  IF Len(a) = 0 \/ Len(b) = 0 THEN <<>>
  ELSE AddMag(MulSmall(a, b[1], 0),
              IF Len(b) = 1 THEN <<>> ELSE <<0>> \o MulMag(a, Tail(b)), 0)

RECURSIVE BitLenDigit(_)
BitLenDigit(v) == IF v = 0 THEN 0 ELSE 1 + BitLenDigit(v \div 2)

\* the number of bits of m
BitLen(m) == IF Len(m) = 0 THEN 0 ELSE 15 * (Len(m) - 1) + BitLenDigit(m[Len(m)])

\* m * 2^n
Shl(m, n) ==
  IF Len(m) = 0 THEN m
  ELSE [k \in 1..(n \div 15) |-> 0] \o MulSmall(m, 2 ^ (n % 15), 0)

\* The quotient d.q, and whether the division d or the digits before it lost
\* a bit that is 1
Shifted(d, lostBefore) == [q |-> Trim(d.q), lost |-> d.r # 0 \/ lostBefore]

\* m without its nd least significant digits, divided by 2^r
ShrDigits(m, nd, r) ==
  Shifted(DivSmall(SubSeq(m, nd + 1, Len(m)), 2 ^ r), \E k \in 1..nd : m[k] # 0)


NaN == [cls |-> "nan", neg |-> FALSE, m |-> <<>>, e |-> 0]
Inf(neg) == [cls |-> "inf", neg |-> neg, m |-> <<>>, e |-> 0]

RECURSIVE TrailingZeros(_)
TrailingZeros(v) == IF v % 2 = 1 THEN 0 ELSE 1 + TrailingZeros(v \div 2)

\* the record of (-1)^neg * m * 2^e, for m with t trailing bits 0, t < 15
CanonOdd(neg, m, e, t) ==
  [cls |-> "finite", neg |-> neg,
   m |-> IF t = 0 THEN m ELSE Trim(DivSmall(m, 2 ^ t).q), e |-> e + t]

RECURSIVE Canon(_, _, _)
\* the record of (-1)^neg * m * 2^e, for m trimmed
Canon(neg, m, e) ==
  IF Len(m) = 0 THEN [cls |-> "finite", neg |-> neg, m |-> <<>>, e |-> 0]
  ELSE IF m[1] = 0 THEN Canon(neg, Tail(m), e + 15)
  ELSE CanonOdd(neg, m, e, TrailingZeros(m[1]))

\* (-1)^neg * m * 2^e as a number: 2^1024 or more is infinite
Finite(neg, m, e) == IF BitLen(m) + e > 1024 THEN Inf(neg) ELSE Canon(neg, m, e)

\* s is the magnitude shifted down to one bit more than is kept: the bit to
\* drop rounds the magnitude up when it is 1, and more follows or the kept part
\* is odd
RoundHalf(neg, s, e, sticky) ==
  Finite(neg,
         Trim(DivSmall(IF Len(s.q) > 0 /\ s.q[1] % 2 = 1
                            /\ (sticky \/ s.lost \/ s.q[1] % 4 = 3)
                         THEN AddMag(s.q, <<>>, 1) ELSE s.q, 2).q),
         e)

\* drop is the number of bits of m that are not kept
RoundDrop(neg, m, e, sticky, drop) ==
  IF drop = 0 THEN Finite(neg, m, e)
  ELSE RoundHalf(neg, ShrDigits(m, Min((drop - 1) \div 15, Len(m)), (drop - 1) % 15),
                 e + drop, sticky)

\* The double nearest to (-1)^neg * (m + x) * 2^e, where x is 0, or is some
\* fraction strictly between 0 and 1 when sticky (then m has more than 54 bits):
\* 53 bits are kept, fewer below 2^-1022, ties go to the even neighbour, and
\* 2^1024 or more is infinite.
Round(neg, m, e, sticky) ==
  RoundDrop(neg, m, e, sticky, Max(Max(BitLen(m) - 53, -1074 - e), 0))

RECURSIVE Digits(_)
\* the magnitude of the natural number n
Digits(n) == IF n = 0 THEN <<>> ELSE <<n % Base>> \o Digits(n \div Base)

\* the integer n as a number
FromInt(n) == Canon(n < 0, Digits(IF n < 0 THEN -n ELSE n), 0)

Zero == [cls |-> "finite", neg |-> FALSE, m |-> <<>>, e |-> 0]
One == [cls |-> "finite", neg |-> FALSE, m |-> <<1>>, e |-> 0]

IsNaN(x) == x.cls = "nan"
IsZero(x) == x.cls = "finite" /\ Len(x.m) = 0

\* -x
Neg(x) == IF IsNaN(x) THEN x ELSE [x EXCEPT !.neg = ~x.neg]

\* the sign of |x| - |y| for finite x and y other than 0
CmpFinite(x, y, bx, by) ==
  IF bx < by THEN -1
  ELSE IF bx > by THEN 1
  ELSE CmpMag(Shl(x.m, x.e - Min(x.e, y.e)), Shl(y.m, y.e - Min(x.e, y.e)))

\* the sign of |x| - |y| for x and y other than NaN
CmpAbs(x, y) ==
  CASE x.cls = "inf" \/ y.cls = "inf" ->
         (IF x.cls = y.cls THEN 0 ELSE IF x.cls = "inf" THEN 1 ELSE -1)
    [] x.cls = "finite" /\ y.cls = "finite" /\ (IsZero(x) \/ IsZero(y)) ->
         (IF IsZero(x) /\ IsZero(y) THEN 0 ELSE IF IsZero(x) THEN -1 ELSE 1)
    [] OTHER -> CmpFinite(x, y, BitLen(x.m) + x.e, BitLen(y.m) + y.e)

\* c, or -c for a negative number
Signed(neg, c) == IF neg THEN -c ELSE c

\* the sign of x - y for x and y other than NaN
Cmp(x, y) ==
  CASE IsZero(x) /\ IsZero(y) -> 0
    [] ~(IsZero(x) /\ IsZero(y)) /\ x.neg # y.neg -> IF x.neg THEN -1 ELSE 1
    [] OTHER -> Signed(x.neg, CmpAbs(x, y))

\* the magnitude of (-1)^xneg * mx + (-1)^yneg * my
SumMag(xneg, mx, yneg, my, c) ==
  IF xneg = yneg THEN AddMag(mx, my, 0)
  ELSE IF c >= 0 THEN Trim(SubDigits(mx, my, 0)) ELSE Trim(SubDigits(my, mx, 0))

\* ((-1)^xneg * mx + (-1)^yneg * my) * 2^e, where c is the sign of mx - my;
\* a sum that is 0 is +0
AddAligned(xneg, mx, yneg, my, e, c) ==
  Round(IF xneg = yneg THEN xneg ELSE IF c > 0 THEN xneg ELSE c < 0 /\ yneg,
        SumMag(xneg, mx, yneg, my, c), e, FALSE)

\* x + y
RAdd(x, y) ==
  CASE IsNaN(x) \/ IsNaN(y) -> NaN
    [] x.cls = "inf" /\ y.cls = "inf" -> IF x.neg = y.neg THEN x ELSE NaN
    [] x.cls = "inf" /\ y.cls = "finite" -> x
    [] x.cls = "finite" /\ y.cls = "inf" -> y
    [] IsZero(x) /\ IsZero(y) -> [Zero EXCEPT !.neg = x.neg /\ y.neg]
    [] IsZero(x) /\ y.cls = "finite" /\ ~IsZero(y) -> y
    [] IsZero(y) /\ x.cls = "finite" /\ ~IsZero(x) -> x
    \* finite x and y other than 0, their magnitudes brought to one exponent
    [] OTHER -> AddAligned(x.neg, Shl(x.m, x.e - Min(x.e, y.e)),
                           y.neg, Shl(y.m, y.e - Min(x.e, y.e)), Min(x.e, y.e),
                           CmpMag(Shl(x.m, x.e - Min(x.e, y.e)),
                                  Shl(y.m, y.e - Min(x.e, y.e))))

\* x - y
RSub(x, y) == RAdd(x, Neg(y))

\* x * y
RMul(x, y) ==
  CASE IsNaN(x) \/ IsNaN(y) -> NaN
    [] ~IsNaN(x) /\ ~IsNaN(y) /\ (x.cls = "inf" \/ y.cls = "inf") ->
         IF IsZero(x) \/ IsZero(y) THEN NaN ELSE Inf(x.neg # y.neg)
    [] OTHER -> Round(x.neg # y.neg, MulMag(x.m, y.m), x.e + y.e, FALSE)

\* The double nearest to (-1)^neg * (d.q + d.r / k) * 2^e, for a division d by k
RoundQuotient(neg, d, e) == Round(neg, Trim(d.q), e, d.r # 0)

\* x / k for an integer k with 0 <= k <= 2^15
RDivInt(x, k) ==
  CASE IsNaN(x) -> NaN
    [] ~IsNaN(x) /\ k = 0 -> IF IsZero(x) THEN NaN ELSE Inf(x.neg)
    [] x.cls = "inf" /\ k # 0 -> x
    [] ~IsNaN(x) /\ x.cls # "inf" /\ k > 0 /\ k <= Base ->
         RoundQuotient(x.neg, DivSmall(Shl(x.m, 75), k), x.e - 75)

\* The number a literal n/d denotes (0.3 is R(3, 10)): the double nearest to
\* n / d, for d >= 0; R(0, 0) is NaN.
R(n, d) == RDivInt(FromInt(n), d)

\* comparisons are false when an operand is NaN
RLt(x, y) == ~IsNaN(x) /\ ~IsNaN(y) /\ Cmp(x, y) < 0
RLeq(x, y) == ~IsNaN(x) /\ ~IsNaN(y) /\ Cmp(x, y) <= 0
\* Math.min
MinBy(x, y, c) == IF c = 0 THEN (IF x.neg THEN x ELSE y) ELSE IF c > 0 THEN y ELSE x
RMin(x, y) == IF IsNaN(x) \/ IsNaN(y) THEN NaN ELSE MinBy(x, y, Cmp(x, y))
\* x || 1 on a number: 0, -0 and NaN are falsy
OrOne(x) == IF IsNaN(x) \/ IsZero(x) THEN One ELSE x

---------------------------------------------------------------------------
(* JavaScript values *)

Undef == [type |-> "undefined"]
Null == [type |-> "null"]
Num(k) == [type |-> "number", value |-> k]
Arr(s) == [type |-> "array", elems |-> s]

IsString(v) == v.type = "string"
IsArray(v) == v.type = "array"

\* A matcher outcome: { isMatch, score, matchedIndices }
Miss == [isMatch |-> FALSE, score |-> One, matchedIndices |-> <<>>]
Hit(s) == [isMatch |-> TRUE, score |-> s, matchedIndices |-> <<<<0, 0>>>>]

\* A word of a text: tok[t] is the outcome of query token t on the word
Word(outs) == [type |-> "string", tok |-> outs]
\* A text: the full-text outcome, and its words
Str(f, ws) == [type |-> "string", full |-> f, words |-> ws]

\* A record of the collection
Item(id, a, b, children) ==
  [type |-> "object", id |-> Num(id), a |-> a, b |-> b, children |-> children]

\* A key of options.keys: a plain string, or { name, weight }
PlainKey(name) == [isString |-> TRUE, name |-> name, weight |-> Undef]
WeightedKey(name, w) == [isString |-> FALSE, name |-> name, weight |-> w]

---------------------------------------------------------------------------
(* Collaborators *)

\* The searcher for the whole pattern, and the one for query token t
FullSearcher == [kind |-> "full", t |-> 0]
TokenSearcher(t) == [kind |-> "token", t |-> t]

\* Bitap.search(text): the outcome of the searcher on the text
BitapSearch(searcher, text) ==
  IF searcher.kind = "full" THEN text.full ELSE text.tok[searcher.t]

\* value.split(tokenSeparator)
Split(value) == value.words

\* What reading a property of null or undefined gives: the TypeError thrown
TypeError == [type |-> "TypeError"]

\* A property name given as a value, as options.recursive.key is
Name(s) == [type |-> "name", value |-> s]

\* The property name a value stands for between brackets: undefined reads
\* the property "undefined"
PropertyKey(v) == IF v.type = "undefined" THEN "undefined" ELSE v.value

\* obj[name]: a TypeError is thrown when obj is null or undefined; the value is
\* undefined when obj has no such property
Prop(obj, name) ==
  CASE obj.type \in {"undefined", "null"} -> TypeError
    [] obj.type = "object" /\ name \in DOMAIN obj \ {"type"} -> obj[name]
    [] OTHER -> Undef

\* Object.assign({}, obj, { [name]: v })
Assign(obj, name, v) == (name :> v) @@ obj

\* options.getFn = deepValue: the list of the string and number values at path
GetFn(obj, path) ==
  IF obj.type # "object" THEN Arr(<<>>)
  ELSE LET v == Prop(obj, path)
       IN CASE v.type \in {"string", "number"} -> Arr(<<v>>)
            [] v.type = "array" ->
                 Arr(SelectSeq(v.elems, LAMBDA e : e.type \in {"string", "number"}))
            [] OTHER -> Arr(<<>>)

\* _prepareSearchers: one token searcher per token of the pattern when tokenize
TokenSearchers ==
  IF options.tokenize THEN [t \in 1..pattern |-> TokenSearcher(t)] ELSE <<>>

---------------------------------------------------------------------------
(* _analyze *)

RECURSIVE Sum(_, _)
\* averageScore after the loop of lines 273-277 has added k scores, k >= 1:
\* scores[0] + ... + scores[k-1], from left to right
Sum(scores, k) == IF k = 1 THEN scores[1] ELSE RAdd(Sum(scores, k - 1), scores[k])

\* One run of lines 246-262: the searcher of query token t on a word
TokenRun(t, res) ==
  [t |-> t, isMatch |-> res.isMatch,
   pushed |-> res.isMatch \/ ~options.matchAllTokens,
   score |-> IF res.isMatch THEN res.score ELSE One]

\* The runs of every token searcher on every word, in loop order (lines 241-266):
\* whether the run matched, and the score it pushes onto scores, if any
TokenRunsOn(words, searchers) ==
  [k \in 1..(Len(searchers) * Len(words)) |->
     TokenRun(((k - 1) \div Len(words)) + 1,
              BitapSearch(searchers[((k - 1) \div Len(words)) + 1],
                          words[((k - 1) % Len(words)) + 1]))]

TokenRuns(value) == TokenRunsOn(Split(value), TokenSearchers)

\* The scores the runs pushed
Pushed(kept) == [k \in 1..Len(kept) |-> kept[k].score]

\* scores, after the token loops
ScoresOf(runs) ==
  Pushed(IF Len(runs) = 0 THEN <<>> ELSE SelectSeq(runs, LAMBDA r : r.pushed))

TokenScores(value) == ScoresOf(TokenRuns(value))

\* Lines 273-278: scores[0] is undefined for no score, and undefined / 0 is NaN
Average(scores) ==
  IF Len(scores) = 0 THEN NaN ELSE RDivInt(Sum(scores, Len(scores)), Len(scores))

\* averageScore (lines 228, 273-278): -1 without tokenize
AverageScore(value) ==
  IF ~options.tokenize THEN FromInt(-1) ELSE Average(TokenScores(value))

\* A variant of FinalScoreOf that adds the two scores without halving the sum
FinalScoreUnhalved(mainScore, averageScore) ==
  IF RLt(FromInt(-1), averageScore)
    THEN RAdd(mainScore, averageScore)
    ELSE mainScore

\* finalScore (lines 283-286)
FinalScoreOf(mainScore, averageScore) ==
  IF RLt(FromInt(-1), averageScore)
    THEN RDivInt(RAdd(mainScore, averageScore), 2)
    ELSE mainScore

FinalScore(value) ==
  FinalScoreOf(BitapSearch(FullSearcher, value).score, AverageScore(value))

\* exists (lines 227, 255)
ExistsIn(runs) == \E k \in DOMAIN runs : runs[k].isMatch

Exists(value) == options.tokenize /\ ExistsIn(TokenRuns(value))

\* numTextMatches (lines 229, 268-270)
TextMatchesIn(runs) ==
  Cardinality({t \in 1..Len(TokenSearchers) :
     \E k \in DOMAIN runs : runs[k].t = t /\ runs[k].isMatch})

NumTextMatches(value) ==
  IF ~options.tokenize THEN 0 ELSE TextMatchesIn(TokenRuns(value))

\* A variant of CheckTextMatches that asks for one matching query token only
CheckTextMatchesAny(value) ==
  IF options.tokenize /\ options.matchAllTokens
    THEN NumTextMatches(value) >= 1
    ELSE TRUE

\* checkTextMatches (line 290)
CheckTextMatches(value) ==
  IF options.tokenize /\ options.matchAllTokens
    THEN NumTextMatches(value) >= Len(TokenSearchers)
    ELSE TRUE

\* The condition of line 295
IsFound(value) ==
  (Exists(value) \/ BitapSearch(FullSearcher, value).isMatch) /\ CheckTextMatches(value)

FieldResult(key, value) ==
  [key |-> key, score |-> FinalScore(value),
   matchedIndices |-> BitapSearch(FullSearcher, value).matchedIndices,
   nScore |-> Undef]

\* A new result entry for the record (lines 309-318)
NewEntry(record, field) == [item |-> record, output |-> <<field>>, score |-> Undef]

\* A variant of Push that does not look the record up in resultMap
PushAlways(f, field, record, index) ==
  [f EXCEPT !.heap = Append(@, NewEntry(record, field)),
            !.resultMap[index] = Len(f.heap) + 1,
            !.results = Append(@, Len(f.heap) + 1)]

\* Lines 297-319: append to the record's entry, or create the entry.
\* f is the frame of a _search run: [list, heap, results, resultMap, weights, thrown]
Push(f, field, record, index) ==
  IF f.resultMap[index] # 0
    THEN [f EXCEPT !.heap[f.resultMap[index]].output = Append(@, field)]
    ELSE [f EXCEPT !.heap = Append(@, NewEntry(record, field)),
                   !.resultMap[index] = Len(f.heap) + 1,
                   !.results = Append(@, Len(f.heap) + 1)]

\* _analyze on a string value (lines 231-320)
AnalyzeString(f, key, value, record, index) ==
  IF IsFound(value) THEN Push(f, FieldResult(key, value), record, index) ELSE f

RECURSIVE Analyze(_, _, _, _, _)
RECURSIVE AnalyzeElems(_, _, _, _, _, _)

\* _analyze (lines 221-336)
Analyze(f, key, value, record, index) ==
  CASE value.type \in {"undefined", "null"} -> f
    [] IsString(value) -> AnalyzeString(f, key, value, record, index)
    [] IsArray(value) -> AnalyzeElems(f, key, value.elems, 1, record, index)
    [] OTHER -> f

\* The loop of lines 322-334, from element k on
AnalyzeElems(f, key, elems, k, record, index) ==
  IF k > Len(elems) THEN f
  ELSE AnalyzeElems(Analyze(f, key, elems[k], record, index), key, elems, k + 1,
                    record, index)

---------------------------------------------------------------------------
(* _computeScore *)

\* nScore (line 351); w[key] is weights[key].weight (line 350)
NScore(field, w) == RMul(field.score, w[field.key])

RECURSIVE BestScore(_, _, _)
\* bestScore after the first k outputs (lines 346, 353-354)
BestScore(output, w, k) ==
  IF k = 0 THEN One
  ELSE IF w[output[k].key] # One
    THEN RMin(BestScore(output, w, k - 1), NScore(output[k], w))
    ELSE BestScore(output, w, k - 1)

RECURSIVE TotalScore(_, _, _)
\* totalScore after the first k outputs (lines 345, 355-358)
TotalScore(output, w, k) ==
  IF k = 0 THEN Zero
  ELSE IF w[output[k].key] # One
    THEN TotalScore(output, w, k - 1)
    ELSE RAdd(TotalScore(output, w, k - 1), NScore(output[k], w))

\* A variant of AggregateScore in which a weighted field does not override the mean
AggregateScoreMean(output, w) ==
  RDivInt(TotalScore(output, [key \in DOMAIN w |-> One], Len(output)), Len(output))

\* Line 361
ScoreOf(bestScore, totalScore, scoreLen) ==
  IF bestScore = One THEN RDivInt(totalScore, scoreLen) ELSE bestScore

\* results[i].score (lines 342-361)
AggregateScore(output, w) ==
  ScoreOf(BestScore(output, w, Len(output)), TotalScore(output, w, Len(output)),
          Len(output))

\* One result entry after the loop body of lines 342-361
ScoredEntry(e, w) ==
  [e EXCEPT !.score = AggregateScore(e.output, w),
            !.output = [k \in 1..Len(e.output) |->
                          IF w[e.output[k].key] # One
                            THEN e.output[k]
                            ELSE [e.output[k] EXCEPT !.nScore = NScore(e.output[k], w)]]]

\* _computeScore(weights, results) (lines 338-365)
ComputeScore(f) ==
  [f EXCEPT !.heap = [r \in 1..Len(f.heap) |->
                        IF \E k \in 1..Len(f.results) : f.results[k] = r
                          THEN ScoredEntry(f.heap[r], f.weights)
                          ELSE f.heap[r]]]

---------------------------------------------------------------------------
(* _sort: Array.prototype.sort with options.sortFn, as the engine runs it: a  *)
(* merge sort of natural runs.  The runs are counted from left to right, a    *)
(* strictly descending run is reversed, a run shorter than the minimum run    *)
(* length is extended by binary insertion, and the pending runs are merged,   *)
(* one element at a time or, when one run keeps winning, by galloping.  An    *)
(* array of fewer than 64 elements is one run.  A comparator result of NaN    *)
(* counts as 0.  Array indices are counted from 0, as the engine does.  A     *)
(* loop of the engine that runs once per element is written as "at most n    *)
(* rounds of the loop": half of the rounds, and then the other half.          *)

\* The sign the sort acts on for a comparator result v: NaN counts as 0
Order(v) == IF IsNaN(v) \/ IsZero(v) THEN 0 ELSE IF v.neg THEN -1 ELSE 1

\* sortFn = (a, b) => a.score - b.score (line 41)
SortFn(a, b) == Order(RSub(a.score, b.score))

\* array[idx]
At(array, idx) == array[idx + 1]

\* array[idx] = v
Put(array, idx, v) == [array EXCEPT ![idx + 1] = v]

\* target after n elements of source, from srcPos on, are copied to dstPos on;
\* source and target may be the same array
Copy(source, srcPos, target, dstPos, n) ==
  SubSeq(target, 1, dstPos) \o SubSeq(source, srcPos + 1, srcPos + n)
    \o SubSeq(target, dstPos + n + 1, Len(target))

\* The number of consecutive wins that starts the galloping mode
MinGallopWins == 7

RECURSIVE ComputeMinRunLength(_, _)
\* The minimum run length for n elements; r is 1 once a 1 bit was shifted off
ComputeMinRunLength(n, r) ==
  IF n >= 64 THEN ComputeMinRunLength(n \div 2, IF n % 2 = 1 THEN 1 ELSE r)
  ELSE n + r

\* The array with the elements from index from up to, not including, to reversed
ReverseRange(array, from, to) ==
  SubSeq(array, 1, from) \o [k \in 1..(to - from) |-> array[to + 1 - k]]
    \o SubSeq(array, to + 1, Len(array))

RECURSIVE RunEnd(_, _, _, _, _)
\* Where the run counted up to idx stops, after at most n more elements: a
\* descending run goes on with an element below the one before it, an
\* ascending run with one not below it
RunEnd(workArray, desc, idx, high, n) ==
  IF idx >= high \/ desc # (SortFn(At(workArray, idx), At(workArray, idx - 1)) < 0)
    THEN idx
  ELSE IF n <= 1 THEN idx + 1
  ELSE RunEnd(workArray, desc, RunEnd(workArray, desc, idx, high, n \div 2),
              high, n - (n \div 2))

\* The run from low up to end; a descending run is reversed
CountRun(workArray, desc, low, end) ==
  [workArray |-> IF desc THEN ReverseRange(workArray, low, end) ELSE workArray,
   length |-> end - low]

\* The length of the run that starts at low, and the array with that run
\* ascending
CountAndMakeRun(workArray, low, high) ==
  IF low + 1 = high THEN [workArray |-> workArray, length |-> 1]
  ELSE CountRun(workArray, SortFn(At(workArray, low + 1), At(workArray, low)) < 0, low,
                RunEnd(workArray, SortFn(At(workArray, low + 1), At(workArray, low)) < 0,
                       low + 2, high, high - low))

RECURSIVE InsertionPoint(_, _, _, _)
InsertionPoint(workArray, pivot, left, right) ==
  IF left >= right THEN left
  ELSE IF SortFn(pivot, At(workArray, left + ((right - left) \div 2))) < 0
    THEN InsertionPoint(workArray, pivot, left, left + ((right - left) \div 2))
    ELSE InsertionPoint(workArray, pivot, left + ((right - left) \div 2) + 1, right)

\* The array with the element at start moved down to left <= start
Insert(workArray, start, left) ==
  SubSeq(workArray, 1, left) \o <<At(workArray, start)>>
    \o SubSeq(workArray, left + 1, start) \o SubSeq(workArray, start + 2, Len(workArray))

RECURSIVE BinaryInsertionSort(_, _, _, _)
\* The elements from low up to start are sorted; insert those from start up to
\* high, one after the other.  The element at low goes where it is.
BinaryInsertionSort(workArray, low, start, high) ==
  IF Len(workArray) < 2 \/ start >= high THEN workArray
  ELSE IF start + 1 = high
    THEN Insert(workArray, start, InsertionPoint(workArray, At(workArray, start), low, start))
  ELSE BinaryInsertionSort(
         BinaryInsertionSort(workArray, low, start, start + ((high - start) \div 2)),
         low, start + ((high - start) \div 2), high)

RECURSIVE GallopLeftSearch(_, _, _, _, _)
\* The binary search that ends GallopLeft
GallopLeftSearch(array, key, base, lastOfs, offset) ==
  IF lastOfs >= offset THEN offset
  ELSE IF SortFn(At(array, base + lastOfs + ((offset - lastOfs) \div 2)), key) < 0
    THEN GallopLeftSearch(array, key, base, lastOfs + ((offset - lastOfs) \div 2) + 1, offset)
    ELSE GallopLeftSearch(array, key, base, lastOfs, lastOfs + ((offset - lastOfs) \div 2))

RECURSIVE GallopLeftUp(_, _, _, _, _, _, _)
\* GallopLeft going right from hint, until array[hint + offset] >= key
GallopLeftUp(array, key, base, hint, lastOfs, offset, maxOfs) ==
  IF offset < maxOfs /\ SortFn(At(array, base + hint + offset), key) < 0
    THEN GallopLeftUp(array, key, base, hint, offset, 2 * offset + 1, maxOfs)
    ELSE GallopLeftSearch(array, key, base, lastOfs + hint + 1, Min(offset, maxOfs) + hint)

RECURSIVE GallopLeftDown(_, _, _, _, _, _, _)
\* GallopLeft going left from hint, until array[hint - offset] < key
GallopLeftDown(array, key, base, hint, lastOfs, offset, maxOfs) ==
  IF offset < maxOfs /\ SortFn(At(array, base + hint - offset), key) >= 0
    THEN GallopLeftDown(array, key, base, hint, offset, 2 * offset + 1, maxOfs)
    ELSE GallopLeftSearch(array, key, base, hint - Min(offset, maxOfs) + 1, hint - lastOfs)

\* The number of elements of the run of length elements at base that are below
\* key: where key goes, before the elements equal to it
GallopLeft(array, key, base, length, hint) ==
  IF SortFn(At(array, base + hint), key) < 0
    THEN GallopLeftUp(array, key, base, hint, 0, 1, length - hint)
    ELSE GallopLeftDown(array, key, base, hint, 0, 1, hint + 1)

RECURSIVE GallopRightSearch(_, _, _, _, _)
\* The binary search that ends GallopRight
GallopRightSearch(array, key, base, lastOfs, offset) ==
  IF lastOfs >= offset THEN offset
  ELSE IF SortFn(key, At(array, base + lastOfs + ((offset - lastOfs) \div 2))) < 0
    THEN GallopRightSearch(array, key, base, lastOfs, lastOfs + ((offset - lastOfs) \div 2))
    ELSE GallopRightSearch(array, key, base, lastOfs + ((offset - lastOfs) \div 2) + 1, offset)

RECURSIVE GallopRightDown(_, _, _, _, _, _, _)
\* GallopRight going left from hint, until array[hint - offset] <= key
GallopRightDown(array, key, base, hint, lastOfs, offset, maxOfs) ==
  IF offset < maxOfs /\ SortFn(key, At(array, base + hint - offset)) < 0
    THEN GallopRightDown(array, key, base, hint, offset, 2 * offset + 1, maxOfs)
    ELSE GallopRightSearch(array, key, base, hint - Min(offset, maxOfs) + 1, hint - lastOfs)

RECURSIVE GallopRightUp(_, _, _, _, _, _, _)
\* GallopRight going right from hint, until key < array[hint + offset]
GallopRightUp(array, key, base, hint, lastOfs, offset, maxOfs) ==
  IF offset < maxOfs /\ SortFn(key, At(array, base + hint + offset)) >= 0
    THEN GallopRightUp(array, key, base, hint, offset, 2 * offset + 1, maxOfs)
    ELSE GallopRightSearch(array, key, base, lastOfs + hint + 1, Min(offset, maxOfs) + hint)

\* The number of elements of the run of length elements at base that are not
\* above key: where key goes, after the elements equal to it
GallopRight(array, key, base, length, hint) ==
  IF SortFn(key, At(array, base + hint)) < 0
    THEN GallopRightDown(array, key, base, hint, 0, 1, hint + 1)
    ELSE GallopRightUp(array, key, base, hint, 0, 1, length - hint)

\* The sort state a merge leaves.  m is the state of a merge: the sort state,
\* the temporary array, the cursors, the lengths left of the two runs, the
\* numbers of consecutive wins, and the place the merge is at
Merged(m) ==
  [workArray |-> m.workArray, pendingRuns |-> m.pendingRuns, minGallop |-> m.minGallop,
   low |-> m.low, remaining |-> m.remaining]

\* MergeLow, from one place of its code to the next
MergeLowStep(m) ==
  CASE m.at = "start" ->
         \* workArray[dest++] = workArray[cursorB++]
         [m EXCEPT !.workArray = Put(@, m.dest, At(@, m.cursorB)),
                   !.dest = @ + 1, !.cursorB = @ + 1, !.lengthB = @ - 1,
                   !.at = IF m.lengthB - 1 = 0 THEN "Succeed"
                          ELSE IF m.lengthA = 1 THEN "CopyB" ELSE "oneByOne"]
    [] m.at = "oneByOne" ->
         \* the loop that takes one element at a time
         IF SortFn(At(m.workArray, m.cursorB), At(m.tempArray, m.cursorTemp)) < 0
           THEN [m EXCEPT !.workArray = Put(@, m.dest, At(@, m.cursorB)),
                          !.dest = @ + 1, !.cursorB = @ + 1, !.lengthB = @ - 1,
                          !.nofWinsB = @ + 1, !.nofWinsA = 0,
                          !.at = IF m.lengthB - 1 = 0 THEN "Succeed"
                                 ELSE IF m.nofWinsB + 1 >= m.minGallop THEN "startGallop"
                                 ELSE "oneByOne"]
           ELSE [m EXCEPT !.workArray = Put(@, m.dest, At(m.tempArray, m.cursorTemp)),
                          !.dest = @ + 1, !.cursorTemp = @ + 1, !.lengthA = @ - 1,
                          !.nofWinsA = @ + 1, !.nofWinsB = 0,
                          !.at = IF m.lengthA - 1 = 1 THEN "CopyB"
                                 ELSE IF m.nofWinsA + 1 >= m.minGallop THEN "startGallop"
                                 ELSE "oneByOne"]
    [] m.at = "startGallop" ->
         [m EXCEPT !.minGallop = @ + 1, !.firstIteration = TRUE, !.at = "gallop"]
    [] m.at = "gallop" ->
         \* the galloping loop: while one run wins MinGallopWins times or more
         IF m.nofWinsA >= MinGallopWins \/ m.nofWinsB >= MinGallopWins \/ m.firstIteration
           THEN [m EXCEPT !.firstIteration = FALSE, !.minGallop = Max(1, @ - 1),
                          !.nofWinsA = GallopRight(m.tempArray, At(m.workArray, m.cursorB),
                                                   m.cursorTemp, m.lengthA, 0),
                          !.at = "wonA"]
           ELSE [m EXCEPT !.minGallop = @ + 1, !.nofWinsA = 0, !.nofWinsB = 0,
                          !.at = "oneByOne"]
    [] m.at = "wonA" ->
         IF m.nofWinsA > 0
           THEN [m EXCEPT !.workArray = Copy(m.tempArray, m.cursorTemp, @, m.dest, m.nofWinsA),
                          !.dest = @ + m.nofWinsA, !.cursorTemp = @ + m.nofWinsA,
                          !.lengthA = @ - m.nofWinsA,
                          !.at = IF m.lengthA - m.nofWinsA = 1 THEN "CopyB"
                                 ELSE IF m.lengthA - m.nofWinsA = 0 THEN "Succeed"
                                 ELSE "takeB"]
           ELSE [m EXCEPT !.at = "takeB"]
    [] m.at = "takeB" ->
         [m EXCEPT !.workArray = Put(@, m.dest, At(@, m.cursorB)),
                   !.dest = @ + 1, !.cursorB = @ + 1, !.lengthB = @ - 1,
                   !.at = IF m.lengthB - 1 = 0 THEN "Succeed" ELSE "countB"]
    [] m.at = "countB" ->
         [m EXCEPT !.nofWinsB = GallopLeft(m.workArray, At(m.tempArray, m.cursorTemp),
                                           m.cursorB, m.lengthB, 0),
                   !.at = "wonB"]
    [] m.at = "wonB" ->
         IF m.nofWinsB > 0
           THEN [m EXCEPT !.workArray = Copy(@, m.cursorB, @, m.dest, m.nofWinsB),
                          !.dest = @ + m.nofWinsB, !.cursorB = @ + m.nofWinsB,
                          !.lengthB = @ - m.nofWinsB,
                          !.at = IF m.lengthB - m.nofWinsB = 0 THEN "Succeed" ELSE "takeA"]
           ELSE [m EXCEPT !.at = "takeA"]
    [] m.at = "takeA" ->
         [m EXCEPT !.workArray = Put(@, m.dest, At(m.tempArray, m.cursorTemp)),
                   !.dest = @ + 1, !.cursorTemp = @ + 1, !.lengthA = @ - 1,
                   !.at = IF m.lengthA - 1 = 1 THEN "CopyB" ELSE "gallop"]
    [] m.at = "Succeed" ->
         \* what is left of run A goes to the end
         [m EXCEPT !.workArray = IF m.lengthA > 0
                                   THEN Copy(m.tempArray, m.cursorTemp, @, m.dest, m.lengthA)
                                   ELSE @,
                   !.at = "done"]
    [] m.at = "CopyB" ->
         \* the last element of run A goes after the rest of run B
         [m EXCEPT !.workArray = Put(Copy(@, m.cursorB, @, m.dest, m.lengthB),
                                     m.dest + m.lengthB, At(m.tempArray, m.cursorTemp)),
                   !.at = "done"]

RECURSIVE MergeLowRun(_, _)
\* At most n steps of MergeLow
MergeLowRun(m, n) ==
  IF m.at = "done" THEN m
  ELSE IF n <= 1 THEN MergeLowStep(m)
  ELSE MergeLowRun(MergeLowRun(m, n \div 2), n - (n \div 2))

\* Merges the run of lengthA elements at baseA with the run of lengthB elements
\* that follows it at baseB, lengthA <= lengthB, from the left: run A is
\* copied to the temporary array.  The merge takes at most four steps for an
\* element.
MergeLow(st, baseA, lengthA, baseB, lengthB) ==
  Merged(MergeLowRun(
    [workArray |-> st.workArray, pendingRuns |-> st.pendingRuns,
     minGallop |-> st.minGallop, low |-> st.low, remaining |-> st.remaining,
     tempArray |-> SubSeq(st.workArray, baseA + 1, baseA + lengthA),
     dest |-> baseA, cursorTemp |-> 0, cursorB |-> baseB,
     lengthA |-> lengthA, lengthB |-> lengthB,
     nofWinsA |-> 0, nofWinsB |-> 0, firstIteration |-> FALSE, at |-> "start"],
    4 * (lengthA + lengthB) + 4))

\* MergeHigh, from one place of its code to the next
MergeHighStep(m) ==
  CASE m.at = "start" ->
         \* workArray[dest--] = workArray[cursorA--]
         [m EXCEPT !.workArray = Put(@, m.dest, At(@, m.cursorA)),
                   !.dest = @ - 1, !.cursorA = @ - 1, !.lengthA = @ - 1,
                   !.at = IF m.lengthA - 1 = 0 THEN "Succeed"
                          ELSE IF m.lengthB = 1 THEN "CopyA" ELSE "oneByOne"]
    [] m.at = "oneByOne" ->
         \* the loop that takes one element at a time
         IF SortFn(At(m.tempArray, m.cursorTemp), At(m.workArray, m.cursorA)) < 0
           THEN [m EXCEPT !.workArray = Put(@, m.dest, At(@, m.cursorA)),
                          !.dest = @ - 1, !.cursorA = @ - 1, !.lengthA = @ - 1,
                          !.nofWinsA = @ + 1, !.nofWinsB = 0,
                          !.at = IF m.lengthA - 1 = 0 THEN "Succeed"
                                 ELSE IF m.nofWinsA + 1 >= m.minGallop THEN "startGallop"
                                 ELSE "oneByOne"]
           ELSE [m EXCEPT !.workArray = Put(@, m.dest, At(m.tempArray, m.cursorTemp)),
                          !.dest = @ - 1, !.cursorTemp = @ - 1, !.lengthB = @ - 1,
                          !.nofWinsB = @ + 1, !.nofWinsA = 0,
                          !.at = IF m.lengthB - 1 = 1 THEN "CopyA"
                                 ELSE IF m.nofWinsB + 1 >= m.minGallop THEN "startGallop"
                                 ELSE "oneByOne"]
    [] m.at = "startGallop" ->
         [m EXCEPT !.minGallop = @ + 1, !.firstIteration = TRUE, !.at = "gallop"]
    [] m.at = "gallop" ->
         \* the galloping loop: while one run wins MinGallopWins times or more
         IF m.nofWinsA >= MinGallopWins \/ m.nofWinsB >= MinGallopWins \/ m.firstIteration
           THEN [m EXCEPT !.firstIteration = FALSE, !.minGallop = Max(1, @ - 1),
                          !.nofWinsA = m.lengthA
                                       - GallopRight(m.workArray, At(m.tempArray, m.cursorTemp),
                                                     m.baseA, m.lengthA, m.lengthA - 1),
                          !.at = "wonA"]
           ELSE [m EXCEPT !.minGallop = @ + 1, !.nofWinsA = 0, !.nofWinsB = 0,
                          !.at = "oneByOne"]
    [] m.at = "wonA" ->
         IF m.nofWinsA > 0
           THEN [m EXCEPT !.workArray = Copy(@, m.cursorA - m.nofWinsA + 1, @,
                                             m.dest - m.nofWinsA + 1, m.nofWinsA),
                          !.dest = @ - m.nofWinsA, !.cursorA = @ - m.nofWinsA,
                          !.lengthA = @ - m.nofWinsA,
                          !.at = IF m.lengthA - m.nofWinsA = 0 THEN "Succeed" ELSE "takeB"]
           ELSE [m EXCEPT !.at = "takeB"]
    [] m.at = "takeB" ->
         [m EXCEPT !.workArray = Put(@, m.dest, At(m.tempArray, m.cursorTemp)),
                   !.dest = @ - 1, !.cursorTemp = @ - 1, !.lengthB = @ - 1,
                   !.at = IF m.lengthB - 1 = 1 THEN "CopyA" ELSE "countB"]
    [] m.at = "countB" ->
         [m EXCEPT !.nofWinsB = m.lengthB
                                - GallopLeft(m.tempArray, At(m.workArray, m.cursorA),
                                             0, m.lengthB, m.lengthB - 1),
                   !.at = "wonB"]
    [] m.at = "wonB" ->
         IF m.nofWinsB > 0
           THEN [m EXCEPT !.workArray = Copy(m.tempArray, m.cursorTemp - m.nofWinsB + 1, @,
                                             m.dest - m.nofWinsB + 1, m.nofWinsB),
                          !.dest = @ - m.nofWinsB, !.cursorTemp = @ - m.nofWinsB,
                          !.lengthB = @ - m.nofWinsB,
                          !.at = IF m.lengthB - m.nofWinsB = 1 THEN "CopyA"
                                 ELSE IF m.lengthB - m.nofWinsB = 0 THEN "Succeed"
                                 ELSE "takeA"]
           ELSE [m EXCEPT !.at = "takeA"]
    [] m.at = "takeA" ->
         [m EXCEPT !.workArray = Put(@, m.dest, At(@, m.cursorA)),
                   !.dest = @ - 1, !.cursorA = @ - 1, !.lengthA = @ - 1,
                   !.at = IF m.lengthA - 1 = 0 THEN "Succeed" ELSE "gallop"]
    [] m.at = "Succeed" ->
         \* what is left of run B goes to the front
         [m EXCEPT !.workArray = IF m.lengthB > 0
                                   THEN Copy(m.tempArray, 0, @, m.dest - (m.lengthB - 1),
                                             m.lengthB)
                                   ELSE @,
                   !.at = "done"]
    [] m.at = "CopyA" ->
         \* the first element of run B goes before the rest of run A
         [m EXCEPT !.workArray = Put(Copy(@, m.cursorA - m.lengthA + 1, @,
                                          m.dest - m.lengthA + 1, m.lengthA),
                                     m.dest - m.lengthA, At(m.tempArray, m.cursorTemp)),
                   !.at = "done"]

RECURSIVE MergeHighRun(_, _)
\* At most n steps of MergeHigh
MergeHighRun(m, n) ==
  IF m.at = "done" THEN m
  ELSE IF n <= 1 THEN MergeHighStep(m)
  ELSE MergeHighRun(MergeHighRun(m, n \div 2), n - (n \div 2))

\* Merges the same two runs, lengthA > lengthB, from the right: run B is copied
\* to the temporary array
MergeHigh(st, baseA, lengthA, baseB, lengthB) ==
  Merged(MergeHighRun(
    [workArray |-> st.workArray, pendingRuns |-> st.pendingRuns,
     minGallop |-> st.minGallop, low |-> st.low, remaining |-> st.remaining,
     tempArray |-> SubSeq(st.workArray, baseB + 1, baseB + lengthB),
     baseA |-> baseA, dest |-> baseB + lengthB - 1,
     cursorTemp |-> lengthB - 1, cursorA |-> baseA + lengthA - 1,
     lengthA |-> lengthA, lengthB |-> lengthB,
     nofWinsA |-> 0, nofWinsB |-> 0, firstIteration |-> FALSE, at |-> "start"],
    4 * (lengthA + lengthB) + 4))

\* A pending run: where it starts and how many elements it has
Run(base, length) == [base |-> base, length |-> length]

\* MergeAt once the elements already in place are left out of the two runs
MergeRest(st, baseA, lengthA, baseB, lengthB) ==
  IF lengthB = 0 THEN st
  ELSE IF lengthA <= lengthB THEN MergeLow(st, baseA, lengthA, baseB, lengthB)
  ELSE MergeHigh(st, baseA, lengthA, baseB, lengthB)

\* k elements of run a are not above the first element of run b
MergeFrom(st, a, b, k) ==
  IF a.length - k = 0 THEN st
  ELSE MergeRest(st, a.base + k, a.length - k, b.base,
                 GallopLeft(st.workArray, At(st.workArray, a.base + a.length - 1),
                            b.base, b.length, b.length - 1))

MergeTwo(st, a, b) ==
  MergeFrom(st, a, b,
            GallopRight(st.workArray, At(st.workArray, b.base), a.base, a.length, 0))

\* Merges the pending runs n and n + 1, which become one pending run
MergeAt(st, n) ==
  MergeTwo([st EXCEPT !.pendingRuns =
              SubSeq(@, 1, n)
                \o <<Run(At(@, n).base, At(@, n).length + At(@, n + 1).length)>>
                \o SubSeq(@, n + 3, Len(@))],
           At(st.pendingRuns, n), At(st.pendingRuns, n + 1))

\* Run n is 0 or 1, or run n - 2 is longer than runs n - 1 and n together
RunInvariantEstablished(pendingRuns, n) ==
  n < 2 \/ At(pendingRuns, n - 2).length >
             At(pendingRuns, n - 1).length + At(pendingRuns, n).length

\* The run to merge with the one after it: n, or n - 1 when that one is
\* shorter than run n + 1
MergeIndex(pendingRuns, n) ==
  IF At(pendingRuns, n - 1).length < At(pendingRuns, n + 1).length THEN n - 1 ELSE n

RECURSIVE MergeCollapse(_)
\* Merges pending runs until the run invariant holds for the last ones
MergeCollapse(st) ==
  IF Len(st.pendingRuns) <= 1 THEN st
  ELSE IF ~RunInvariantEstablished(st.pendingRuns, Len(st.pendingRuns) - 1)
          \/ ~RunInvariantEstablished(st.pendingRuns, Len(st.pendingRuns) - 2)
    THEN MergeCollapse(MergeAt(st, MergeIndex(st.pendingRuns, Len(st.pendingRuns) - 2)))
  ELSE IF At(st.pendingRuns, Len(st.pendingRuns) - 2).length
            <= At(st.pendingRuns, Len(st.pendingRuns) - 1).length
    THEN MergeCollapse(MergeAt(st, Len(st.pendingRuns) - 2))
  ELSE st

RECURSIVE MergeForceCollapse(_)
\* Merges all the pending runs into one
MergeForceCollapse(st) ==
  IF Len(st.pendingRuns) <= 1 THEN st
  ELSE IF Len(st.pendingRuns) > 2
    THEN MergeForceCollapse(MergeAt(st, MergeIndex(st.pendingRuns, Len(st.pendingRuns) - 2)))
  ELSE MergeForceCollapse(MergeAt(st, 0))

\* The run made at low, extended to the minimum run length when it is shorter
ExtendRun(made, low, remaining, minRunLength) ==
  IF made.length < minRunLength
    THEN [workArray |-> BinaryInsertionSort(made.workArray, low, low + made.length,
                                            low + Min(minRunLength, remaining)),
          length |-> Min(minRunLength, remaining)]
    ELSE made

\* The loop of the sort, with the run at low made: the run is pushed onto the
\* pending runs
TimSortRun(st, made) ==
  MergeCollapse([st EXCEPT !.workArray = made.workArray,
                           !.pendingRuns = Append(@, Run(st.low, made.length)),
                           !.low = @ + made.length, !.remaining = @ - made.length])

RECURSIVE ArrayTimSortImpl(_, _, _)
\* At most n rounds of the loop of the sort, with remaining elements from low
\* on not yet in a run
ArrayTimSortImpl(st, minRunLength, n) ==
  IF st.remaining = 0 THEN st
  ELSE IF n <= 1
    THEN TimSortRun(st, ExtendRun(CountAndMakeRun(st.workArray, st.low,
                                                  st.low + st.remaining),
                                  st.low, st.remaining, minRunLength))
  ELSE ArrayTimSortImpl(ArrayTimSortImpl(st, minRunLength, n \div 2),
                        minRunLength, n - (n \div 2))

\* Array.prototype.sort with sortFn
ArraySort(s) ==
  IF Len(s) < 2 THEN s
  ELSE MergeForceCollapse(
         ArrayTimSortImpl([workArray |-> s, pendingRuns |-> <<>>,
                           minGallop |-> MinGallopWins, low |-> 0, remaining |-> Len(s)],
                          ComputeMinRunLength(Len(s), 0), Len(s))).workArray

\* The references of the sorted entries
Refs(sorted) == [k \in 1..Len(sorted) |-> sorted[k].ref]

\* _sort(results) (lines 367-370): the references, reordered
Sort(f) ==
  [f EXCEPT !.results =
     Refs(ArraySort([k \in 1..Len(f.results) |->
                       [ref |-> f.results[k], score |-> f.heap[f.results[k]].score]]))]

---------------------------------------------------------------------------
(* _format *)

\* The includeMatches transformer (lines 380-394)
Matches(output) ==
  [k \in 1..Len(output) |->
     IF output[k].key # ""
       THEN [indices |-> output[k].matchedIndices, key |-> output[k].key]
       ELSE [indices |-> output[k].matchedIndices]]

\* result.item after lines 406-408; options.id = "" stands for no id
First(got) == IF Len(got) > 0 THEN got[1] ELSE Undef

ProjectedItem(e) ==
  IF options.id # "" THEN First(GetFn(e.item, options.id).elems) ELSE e.item

\* The element pushed onto finalOutput for one result (lines 410-423)
FormattedAs(item, e) ==
  CASE ~options.includeMatches /\ ~options.includeScore -> item
    [] options.includeMatches /\ ~options.includeScore ->
         [item |-> item, matches |-> Matches(e.output)]
    [] ~options.includeMatches /\ options.includeScore ->
         [item |-> item, score |-> e.score]
    [] OTHER -> [item |-> item, matches |-> Matches(e.output), score |-> e.score]

Formatted(e) == FormattedAs(ProjectedItem(e), e)

\* finalOutput (lines 403-432)
FinalOutput(f) == Arr([k \in 1..Len(f.results) |-> Formatted(f.heap[f.results[k]])])

\* The result entries after _format: the id projection overwrites result.item
Format(f) ==
  [f EXCEPT !.heap = [r \in 1..Len(f.heap) |->
                        IF \E k \in 1..Len(f.results) : f.results[k] = r
                          THEN [f.heap[r] EXCEPT !.item = ProjectedItem(f.heap[r])]
                          ELSE f.heap[r]]]

---------------------------------------------------------------------------
(* _search *)

\* The frame of a _search run over lst (lines 127-128, 153)
NewFrame(lst) ==
  [list |-> lst, heap |-> <<>>, results |-> <<>>,
   resultMap |-> [k \in 1..Len(lst) |-> 0], weights |-> <<>>, thrown |-> FALSE]

\* The branch test of line 132
IsFlat(lst) == Len(lst) > 0 /\ IsString(lst[1])

\* The loop body of lines 135-145: record is the element's index
FlatAnalyze(f, k) == Analyze(f, "", f.list[k], Num(k - 1), k)

\* The value returned at line 148
FlatReturn(f) ==
  [type |-> "object", weights |-> Null,
   results |-> Arr([k \in 1..Len(f.results) |-> f.heap[f.results[k]]])]

\* A variant of DeriveWeight that stores the configured weight
DeriveWeightAsGiven(key) ==
  IF key.isString THEN One ELSE OrOne(key.weight)

\* The weight stored for a key (lines 160-162, 168-170)
DeriveWeight(key) ==
  IF key.isString THEN One ELSE OrOne(RSub(One, key.weight))

\* The test of line 163
IsInvalidWeight(key) ==
  ~key.isString /\ (RLeq(key.weight, Zero) \/ RLt(One, key.weight))

\* The loop body of lines 158-183 for record k and key number m
\* Lines 163-183 for record k, with the weight of key stored in g
KeyStepOn(g, k, key) ==
  IF IsInvalidWeight(key)
    THEN [g EXCEPT !.thrown = TRUE]
    ELSE Analyze(g, key.name, GetFn(g.list[k], key.name), g.list[k], k)

KeyStep(f, k, m) ==
  KeyStepOn([f EXCEPT !.weights = (options.keys[m].name :> DeriveWeight(options.keys[m])) @@ @],
            k, options.keys[m])

\* The property the child collection of a record is read from and the child
\* results are written to
RecursiveKey == PropertyKey(options.recursive.key)

\* A variant of ObjectAssign whose target is the record of the collection itself
ObjectAssignInPlace(f, k, src, children) ==
  [f |-> [f EXCEPT !.list[k] = Assign(src, RecursiveKey, children)],
   obj |-> Assign(src, RecursiveKey, children)]

\* Object.assign({}, src, { [recursive.key]: children }): the target is a new
\* object, the collection is left as it is
ObjectAssign(f, k, src, children) ==
  [f |-> f, obj |-> Assign(src, RecursiveKey, children)]

\* results.indexOf(x), 1-based; 0 when x is not in s
IndexOf(s, x) ==
  IF \E p \in 1..Len(s) : s[p] = x
    THEN CHOOSE p \in 1..Len(s) : s[p] = x /\ \A q \in 1..(p - 1) : s[q] # x
    ELSE 0

\* Lines 191-208, given the value the recursive call returned
AttachChildren(f, k, children) ==
  IF f.resultMap[k] # 0
    THEN LET old == f.heap[f.resultMap[k]]
             a == ObjectAssign(f, k, old.item, children)
             result == [old EXCEPT !.item = a.obj]
             ref == Len(f.heap) + 1
         IN [a.f EXCEPT !.heap = Append(@, result),
                        !.results = [p \in 1..Len(@) |->
                                       IF p = IndexOf(@, f.resultMap[k]) THEN ref ELSE @[p]],
                        !.resultMap[k] = ref]
    \* children.length (line 200)
    ELSE IF IsArray(children) /\ Len(children.elems) > 0
      THEN LET a == ObjectAssign(f, k, f.list[k], children)
               ref == Len(f.heap) + 1
           IN [a.f EXCEPT !.heap = Append(@, [item |-> a.obj, output |-> <<>>,
                                              score |-> Undef]),
                          !.resultMap[k] = ref,
                          !.results = Append(@, ref)]
      ELSE f

\* The condition of lines 186-188 throws: recursion is enabled, and the record
\* whose property is read at line 187 is null or undefined
RecurseThrows(item) ==
  options.recursive.enabled /\ Prop(item, RecursiveKey).type = "TypeError"

\* The condition of lines 186-188
Recurses(item) ==
  /\ options.recursive.enabled
  /\ IsArray(Prop(item, RecursiveKey))
  /\ Len(Prop(item, RecursiveKey).elems) > 0

\* Lines 212-218 on the frame the loops leave
SortIfAsked(f) == IF options.shouldSort THEN Sort(f) ELSE f

Finish(f) ==
  [list |-> f.list, thrown |-> FALSE, ret |-> FinalOutput(SortIfAsked(ComputeScore(f)))]

\* Lines 190-208, given what the recursive call did: the collection it was
\* handed is the value of the record's property recursive.key
AfterChild(f, k, sub) ==
  LET g == [f EXCEPT !.list[k] = Assign(@, RecursiveKey, Arr(sub.list))]
  IN IF sub.thrown
       THEN [g EXCEPT !.thrown = TRUE]
       ELSE AttachChildren(g, k, sub.ret)

AfterRecords(f) ==
  IF f.thrown
    THEN [list |-> f.list, thrown |-> TRUE, ret |-> Undef]
    ELSE Finish(f)

RECURSIVE SearchFn(_)
RECURSIVE RecurseStep(_, _)
RECURSIVE Records(_, _, _)

\* Lines 186-209 for record k
RecurseStep(f, k) ==
  IF RecurseThrows(f.list[k]) THEN [f EXCEPT !.thrown = TRUE]
  ELSE IF Recurses(f.list[k])
    THEN AfterChild(f, k, SearchFn(Prop(f.list[k], RecursiveKey).elems))
    ELSE f

\* The loops of lines 154-210, from record k, key number m on
Records(f, k, m) ==
  IF f.thrown \/ k > Len(f.list) THEN f
  ELSE IF m <= Len(options.keys)
    THEN Records(KeyStep(f, k, m), k, m + 1)
    ELSE Records(RecurseStep(f, k), k + 1, 1)

RECURSIVE FlatRecords(_, _)
\* The loop of lines 134-146, from element k on
FlatRecords(f, k) ==
  IF k > Len(f.list) THEN f ELSE FlatRecords(FlatAnalyze(f, k), k + 1)

\* _search(lst, tokenSearchers, fullSearcher): what it returns, whether it
\* throws, and the collection after the call
SearchFn(lst) ==
  IF IsFlat(lst)
    THEN [list |-> lst, thrown |-> FALSE,
          ret |-> FlatReturn(FlatRecords(NewFrame(lst), 1))]
    ELSE AfterRecords(Records(NewFrame(lst), 1, 1))

---------------------------------------------------------------------------
(* The collections and options the model is run on *)

\* The options of new Fuse(list, {}) (lines 7-88); id = "" stands for null
DefaultOptions ==
  [tokenize |-> FALSE, matchAllTokens |-> FALSE, shouldSort |-> TRUE, id |-> "",
   keys |-> <<>>, includeMatches |-> FALSE, includeScore |-> FALSE,
   recursive |-> [enabled |-> FALSE, key |-> Undef]]

\* recursive: { enabled: true, key: name }
RecursiveOn(name) == [enabled |-> TRUE, key |-> Name(name)]

\* The recursive option of a configuration: over children when asked for, else
\* the default
RecursiveIf(asked) == IF asked THEN RecursiveOn("children") ELSE DefaultOptions.recursive

\* Full-text outcomes of a text
FullOutcomes == {Miss, Hit(Zero), Hit(R(2, 5))}

\* Outcomes of query token t on a word
TokenOutcomes(t) == {Miss, Hit(R(t, 5))}

Words(nt) ==
  {Word(outs) : outs \in {o \in [1..nt -> UNION {TokenOutcomes(t) : t \in 1..nt}] :
                            \A t \in 1..nt : o[t] \in TokenOutcomes(t)}}

Texts(nt) ==
  {Str(f, ws) : f \in {Miss, Hit(R(2, 5))},
                ws \in UNION {[1..n -> Words(nt)] : n \in 1..MaxWords}}

\* A one-word text with full-text outcome f, which every query token gives too
Text(f) == Str(f, <<Word(<<f>>)>>)

\* A text that the pattern and each of its nt tokens match
MatchingText(nt) == Str(Hit(Zero), <<Word([t \in 1..nt |-> Hit(R(t, 5))])>>)

\* A text that the pattern matches and the last of its nt tokens does not
ExcludedText(nt) ==
  Str(Hit(Zero), <<Word([t \in 1..nt |-> IF t < nt THEN Hit(R(t, 5)) ELSE Miss])>>)

\* Tokenized search of a text s: a flat collection of s, or records searched
\* recursively when they have children:
\*   record       one record with the text s
\*   parent       one record with s and a child record that matches
\*   child        one record with an excluded text and a child record with s
\*   grandparent  one record with s, an excluded child and a grandchild that
\*                matches
\*   family       three records with s: the first with a child record that
\*                matches, the second with a child record that is excluded,
\*                the third with a child collection of one matching string
TokenShapes == {"record", "parent", "child", "grandparent", "family", "flat"}

TokenList(shape, s, nt) ==
  CASE shape = "record" -> <<Item(1, s, Undef, Undef)>>
    [] shape = "parent" ->
         <<Item(1, s, Undef, Arr(<<Item(11, MatchingText(nt), Undef, Undef)>>))>>
    [] shape = "child" ->
         <<Item(1, ExcludedText(nt), Undef, Arr(<<Item(11, s, Undef, Undef)>>))>>
    [] shape = "grandparent" ->
         <<Item(1, s, Undef,
                Arr(<<Item(11, ExcludedText(nt), Undef,
                           Arr(<<Item(111, MatchingText(nt), Undef, Undef)>>))>>))>>
    [] shape = "family" ->
         <<Item(1, s, Undef, Arr(<<Item(11, MatchingText(nt), Undef, Undef)>>)),
           Item(2, s, Undef, Arr(<<Item(21, ExcludedText(nt), Undef, Undef)>>)),
           Item(3, s, Undef, Arr(<<MatchingText(nt)>>))>>
    [] OTHER -> <<s>>

\* The ways of a search: the full pattern only, its tokens too, or all of its
\* tokens required
TokenModes == {"full", "tokenize", "matchAllTokens"}

TokenOptions(shape, mode) ==
  [DefaultOptions EXCEPT !.keys = <<PlainKey("a")>>,
                         !.tokenize = (mode # "full"),
                         !.matchAllTokens = (mode = "matchAllTokens"),
                         !.includeScore = TRUE,
                         !.recursive = RecursiveIf(shape \notin {"record", "flat"})]

\* Weighted keys: no record, one record with fields a and b, or one flat text
FieldsA ==
  {Undef, Text(Hit(R(2, 5))), Arr(<<Text(Hit(R(2, 5))), Text(Hit(R(1, 5)))>>),
   Arr(<<Text(Miss), Num(7), Text(Hit(Zero))>>)}

FieldsB == {Undef, Text(Hit(R(1, 5))), Text(Hit(R(3, 5)))}

KeysA ==
  {PlainKey("a")} \cup
  {WeightedKey("a", w) : w \in {One, R(1, 2), R(3, 10), Zero, R(3, 2), R(-1, 2)}}

KeysB == {PlainKey("b"), WeightedKey("b", R(4, 5)), WeightedKey("b", R(1, 5))}

Leaf(id, f) == Item(id, Text(f), Undef, Undef)

WeightLists ==
  {<<>>, <<Text(Hit(R(2, 5)))>>}
    \cup {<<Item(1, a, b, c)>> :
            a \in FieldsA, b \in FieldsB,
            c \in {Undef, Arr(<<Leaf(11, Hit(R(2, 5)))>>)}}

WeightKeys ==
  {<<ka>> : ka \in KeysA} \cup {<<ka, kb>> : ka \in KeysA, kb \in KeysB}

WeightOptions(ks, rec) ==
  [DefaultOptions EXCEPT !.keys = ks, !.includeScore = TRUE, !.recursive = RecursiveIf(rec)]

\* Nested collections: records with one text and a child collection

ChildCollections(id) ==
  {Undef,
   Arr(<<Leaf(10 * id + 1, Miss)>>),
   Arr(<<Leaf(10 * id + 1, Hit(R(2, 5))), Leaf(10 * id + 2, Hit(Zero))>>),
   Arr(<<Item(10 * id + 1, Text(Miss), Undef,
              Arr(<<Leaf(100 * id + 11, Hit(Zero))>>))>>),
   Arr(<<Text(Hit(Zero))>>)}

TreeItems(id) ==
  {Item(id, Text(f), Undef, c) : f \in FullOutcomes, c \in ChildCollections(id)}

RECURSIVE TreeListsOf(_)
\* The collections of n records, the record at position id having that id
TreeListsOf(n) ==
  IF n = 0 THEN {<<>>}
  ELSE {Append(lst, item) : lst \in TreeListsOf(n - 1), item \in TreeItems(n)}

TreeLists == UNION {TreeListsOf(n) : n \in 0..MaxList}

TreeOptions ==
  {[DefaultOptions EXCEPT !.keys = <<PlainKey("a")>>,
                          !.recursive = RecursiveIf(o.recursive), !.shouldSort = o.shouldSort,
                          !.id = o.id, !.includeScore = o.includeScore,
                          !.includeMatches = o.includeMatches] :
     o \in {[recursive |-> TRUE, shouldSort |-> TRUE, id |-> "",
             includeScore |-> FALSE, includeMatches |-> FALSE],
            [recursive |-> TRUE, shouldSort |-> FALSE, id |-> "",
             includeScore |-> TRUE, includeMatches |-> TRUE],
            [recursive |-> TRUE, shouldSort |-> TRUE, id |-> "id",
             includeScore |-> FALSE, includeMatches |-> TRUE],
            [recursive |-> FALSE, shouldSort |-> TRUE, id |-> "",
             includeScore |-> TRUE, includeMatches |-> FALSE]}}

\* A recursion key other than "children": the child collection is the value
\* of b, which may be a key of the search too
KeyLists ==
  {<<Item(1, Text(f), Arr(<<Leaf(11, g)>>), Undef)>> : f \in FullOutcomes, g \in FullOutcomes}

KeyOptions ==
  {[DefaultOptions EXCEPT !.keys = ks, !.recursive = RecursiveOn("b")] :
     ks \in {<<PlainKey("a")>>, <<PlainKey("a"), PlainKey("b")>>}}

\* Collections with an element that is null or undefined, at the top or among
\* the children of a record; searched with the default options, with a key,
\* and with recursion over children or over no key given
NullLists ==
  {<<Null>>, <<Undef>>, <<Leaf(1, Hit(Zero)), Null>>, <<Null, Leaf(2, Hit(Zero))>>,
   <<Item(1, Text(Hit(Zero)), Undef, Arr(<<Null>>))>>,
   <<Item(1, Text(Miss), Undef, Arr(<<Leaf(11, Hit(Zero)), Undef>>))>>}

NullOptions ==
  {[DefaultOptions EXCEPT !.keys = ks, !.recursive = rec] :
     ks \in {<<>>, <<PlainKey("a")>>},
     rec \in {DefaultOptions.recursive, RecursiveOn("children"),
              [enabled |-> TRUE, key |-> Undef]}}

\* The collections set(list) is called with: none, one record or one text that
\* the pattern and each of its nt tokens match
SetLists(nt) ==
  {<<>>, <<Item(2, MatchingText(nt), Undef, Undef)>>, <<MatchingText(nt)>>}

---------------------------------------------------------------------------
(* The search call, step by step *)

Frame ==
  [list |-> list, heap |-> heap, results |-> results, resultMap |-> resultMap,
   weights |-> weights, thrown |-> FALSE]

SetFrame(f) ==
  /\ list' = f.list
  /\ heap' = f.heap
  /\ results' = f.results
  /\ resultMap' = f.resultMap
  /\ weights' = f.weights

\* new Fuse(list, options), and the pattern that will be searched
TokenInit ==
  \E nt \in 1..MaxTokens, shape \in TokenShapes, mode \in TokenModes :
    \E s \in Texts(nt) :
      /\ list = TokenList(shape, s, nt)
      /\ options = TokenOptions(shape, mode)
      /\ pattern = nt

WeightInit ==
  \E lst \in WeightLists, ks \in WeightKeys, rec \in BOOLEAN :
    /\ list = lst
    /\ options = WeightOptions(ks, rec)
    /\ pattern = 1

TreeInit ==
  \E lst \in TreeLists, opts \in TreeOptions :
    /\ list = lst
    /\ options = opts
    /\ pattern = 1

KeyInit ==
  \E lst \in KeyLists, opts \in KeyOptions :
    /\ list = lst
    /\ options = opts
    /\ pattern = 1

NullInit ==
  \E lst \in NullLists, opts \in NullOptions :
    /\ list = lst
    /\ options = opts
    /\ pattern = 1

Init ==
  /\ TokenInit \/ WeightInit \/ TreeInit \/ KeyInit \/ NullInit
  /\ pc = "idle"
  /\ i = 0
  /\ j = 0
  /\ heap = <<>>
  /\ results = <<>>
  /\ resultMap = <<>>
  /\ weights = <<>>
  /\ ret = Undef
  /\ run = 1
  /\ prevRet = Undef

\* search(pattern) up to the loops of _search (lines 98-133, 153-154)
Search ==
  /\ pc = "idle"
  /\ SetFrame(NewFrame(list))
  /\ pc' = IF IsFlat(list) THEN "flat"
           ELSE IF Len(list) = 0 THEN "score"
           ELSE IF Len(options.keys) = 0 THEN "recurse" ELSE "keys"
  /\ i' = IF Len(list) = 0 THEN 0 ELSE 1
  /\ j' = IF IsFlat(list) \/ Len(list) = 0 \/ Len(options.keys) = 0 THEN 0 ELSE 1
  /\ UNCHANGED <<options, pattern, ret, run, prevRet>>

\* One iteration of the flat loop (lines 134-146)
FlatStep ==
  /\ pc = "flat"
  /\ i <= Len(list)
  /\ SetFrame(FlatAnalyze(Frame, i))
  /\ i' = i + 1
  /\ UNCHANGED <<options, pattern, pc, j, ret, run, prevRet>>

\* The return of line 148
FlatReturnStep ==
  /\ pc = "flat"
  /\ i > Len(list)
  /\ ret' = FlatReturn(Frame)
  /\ pc' = "done"
  /\ i' = 0
  /\ UNCHANGED <<list, options, pattern, j, heap, results, resultMap, weights, run, prevRet>>

\* One iteration of the key loop (lines 157-184); the throw ends the call
KeyLoopStep ==
  /\ pc = "keys"
  /\ \E f \in {KeyStep(Frame, i, j)} :
        /\ SetFrame(f)
        /\ pc' = IF f.thrown THEN "error"
                 ELSE IF j < Len(options.keys) THEN "keys" ELSE "recurse"
        /\ j' = IF f.thrown THEN j ELSE IF j < Len(options.keys) THEN j + 1 ELSE 0
  /\ UNCHANGED <<options, pattern, i, ret, run, prevRet>>

\* The recursion of lines 186-209 for record i, and the step to the next
\* record; a throw (of line 187, or of the recursive call) ends the call
RecurseLoopStep ==
  /\ pc = "recurse"
  /\ \E f \in {RecurseStep(Frame, i)} :
        /\ SetFrame(f)
        /\ pc' = IF f.thrown THEN "error"
                 ELSE IF i = Len(list) THEN "score"
                 ELSE IF Len(options.keys) = 0 THEN "recurse" ELSE "keys"
        /\ i' = IF f.thrown THEN i ELSE IF i = Len(list) THEN 0 ELSE i + 1
        /\ j' = IF f.thrown \/ i = Len(list) \/ Len(options.keys) = 0 THEN 0 ELSE 1
  /\ UNCHANGED <<options, pattern, ret, run, prevRet>>

\* Line 212
ComputeScoreStep ==
  /\ pc = "score"
  /\ SetFrame(ComputeScore(Frame))
  /\ pc' = "sort"
  /\ UNCHANGED <<options, pattern, i, j, ret, run, prevRet>>

\* Lines 214-216
SortStep ==
  /\ pc = "sort"
  /\ SetFrame(IF options.shouldSort THEN Sort(Frame) ELSE Frame)
  /\ pc' = "format"
  /\ UNCHANGED <<options, pattern, i, j, ret, run, prevRet>>

\* Line 218
FormatStep ==
  /\ pc = "format"
  /\ ret' = FinalOutput(Frame)
  /\ SetFrame(Format(Frame))
  /\ pc' = "done"
  /\ UNCHANGED <<options, pattern, i, j, run, prevRet>>

\* What a whole search call leaves: sub is what _search gives for this.list
Returned(sub) ==
  /\ list' = sub.list
  /\ ret' = sub.ret
  /\ pc' = IF sub.thrown THEN "error" ELSE "done"

\* A second search(pattern) on the same instance, with the same pattern, run
\* to its end; heap, results, resultMap and weights stay those of the first call
SearchAgain ==
  /\ pc = "done"
  /\ run = 1
  /\ run' = 2
  /\ prevRet' = ret
  /\ \E sub \in {SearchFn(list)} : Returned(sub)
  /\ UNCHANGED <<options, pattern, i, j, heap, results, resultMap, weights>>

\* set(list) (lines 93-96), called when no search is running: the collection is
\* replaced; nothing of the calls made on the former collection is kept, and
\* run counts the searches of the collection now set
Set ==
  /\ pc \in {"idle", "done", "error"}
  /\ \E lst \in SetLists(pattern) : list' = lst
  /\ pc' = "idle"
  /\ i' = 0
  /\ j' = 0
  /\ heap' = <<>>
  /\ results' = <<>>
  /\ resultMap' = <<>>
  /\ weights' = <<>>
  /\ ret' = Undef
  /\ run' = 1
  /\ prevRet' = Undef
  /\ UNCHANGED <<options, pattern>>

Next ==
  \/ Set
  \/ Search
  \/ FlatStep
  \/ FlatReturnStep
  \/ KeyLoopStep
  \/ RecurseLoopStep
  \/ ComputeScoreStep
  \/ SortStep
  \/ FormatStep
  \/ SearchAgain

Spec == Init /\ [][Next]_vars

---------------------------------------------------------------------------
(* Vocabulary of the properties *)

Structured == ~IsFlat(list)

\* The search call has run its loops and aggregated the scores
Scored == pc \in {"sort", "format", "done"} /\ Structured

\* The result entry at position p of results
EntryAt(p) == heap[results[p]]

\* Query token t matches at least one word of the text v
TokenHits(v, t) == \E w \in 1..Len(v.words) : v.words[w].tok[t].isMatch

AllTokensMatch(v) == \A t \in 1..pattern : TokenHits(v, t)

AnyTokenMatches(v) == \E t \in 1..pattern : TokenHits(v, t)

\* The text v yields a FieldResult
Passes(v) ==
  IF options.tokenize
    THEN /\ v.full.isMatch \/ AnyTokenMatches(v)
         /\ options.matchAllTokens => AllTokensMatch(v)
    ELSE v.full.isMatch

\* The (query token, word) pairs, token by token
Pairs(v) ==
  [k \in 1..(pattern * Len(v.words)) |->
     <<((k - 1) \div Len(v.words)) + 1, ((k - 1) % Len(v.words)) + 1>>]

\* The (query token, word) runs that contribute a token score, in that order
Contributions(v) ==
  IF pattern * Len(v.words) = 0 THEN <<>>
  ELSE SelectSeq(Pairs(v), LAMBDA p : v.words[p[2]].tok[p[1]].isMatch
                                        \/ ~options.matchAllTokens)

Contribution(v, p) ==
  IF v.words[p[2]].tok[p[1]].isMatch THEN v.words[p[2]].tok[p[1]].score ELSE One

RECURSIVE SumOf(_, _)
\* The sum of the first k numbers of a sequence, added one after the other
SumOf(seq, k) == IF k = 0 THEN Zero ELSE RAdd(SumOf(seq, k - 1), seq[k])

\* The arithmetic mean of the numbers of a sequence that is not empty
MeanOf(seq) == RDivInt(SumOf(seq, Len(seq)), Len(seq))

\* The score the FieldResult of the text v is to carry
ExpectedScore(v) ==
  IF options.tokenize
    THEN LET c == Contributions(v)
         IN RDivInt(RAdd(v.full.score,
                         MeanOf([k \in 1..Len(c) |-> Contribution(v, c[k])])), 2)
    ELSE v.full.score

\* The texts of the field name of a record that yield a FieldResult, in order
PassingTexts(item, name) ==
  SelectSeq(GetFn(item, name).elems, LAMBDA v : v.type = "string" /\ Passes(v))

AllTexts(item, name) ==
  SelectSeq(GetFn(item, name).elems, LAMBDA v : v.type = "string")

RECURSIVE ExpectedFields(_, _)
\* The FieldResults (key and score) the first m keys are to give a record
ExpectedFields(item, m) ==
  IF m = 0 THEN <<>>
  ELSE LET name == options.keys[m].name
           texts == PassingTexts(item, name)
       IN ExpectedFields(item, m - 1) \o
            [k \in 1..Len(texts) |-> [key |-> name, score |-> ExpectedScore(texts[k])]]

\* The number of keys _search has analyzed for record r
KeysDone(r) ==
  IF pc = "keys" \/ (pc = "error" /\ j > 0)
    THEN IF r < i THEN Len(options.keys) ELSE IF r = i THEN j - 1 ELSE 0
  ELSE IF pc = "recurse" \/ (pc = "error" /\ j = 0)
    THEN IF r <= i THEN Len(options.keys) ELSE 0
  ELSE Len(options.keys)

\* The FieldResults record r is to have at this point of the call
ExpectedOutput(r) ==
  IF Structured
    THEN ExpectedFields(list[r], KeysDone(r))
    ELSE IF (pc = "flat" /\ r >= i) \/ ~Passes(list[r]) THEN <<>>
         ELSE <<[key |-> "", score |-> ExpectedScore(list[r])]>>

\* The keys and scores of an output
KeyScores(output) ==
  [k \in 1..Len(output) |-> [key |-> output[k].key, score |-> output[k].score]]

Running == pc \in {"flat", "keys", "recurse", "score", "sort", "format", "done", "error"}

\* The output of record r's entry; empty when it has none
OutputOf(r) == IF resultMap[r] = 0 THEN <<>> ELSE heap[resultMap[r]].output

\* The item of the p-th element of the returned list
ReturnedItem(p) ==
  IF options.includeMatches \/ options.includeScore THEN ret.elems[p].item
  ELSE ret.elems[p]

\* The positions of the returned list that hold record r
PositionsOf(r) ==
  {p \in 1..Len(ret.elems) :
     ReturnedItem(p).type = "object" /\ ReturnedItem(p).id = list[r].id}

---------------------------------------------------------------------------
(* C1 *)

\* The FieldResults of an output whose key has a weight other than 1
WeightedFields(output) == {k \in 1..Len(output) : weights[output[k].key] # One}

MinOf(S) == CHOOSE x \in S : \A y \in S : RLeq(x, y)

Scores(output) == [k \in 1..Len(output) |-> output[k].score]

\* C1: after _computeScore, every result entry with at least one FieldResult has
\* as score the minimum of score x weight over its FieldResults whose key has a
\* weight other than 1 when there is one, and the mean of all its FieldResult
\* scores otherwise.
C1_Aggregate ==
  Scored =>
    \A p \in 1..Len(results) :
      LET e == EntryAt(p)
      IN Len(e.output) >= 1 =>
           IF WeightedFields(e.output) # {}
             THEN e.score = MinOf({RMul(e.output[k].score, weights[e.output[k].key]) :
                                     k \in WeightedFields(e.output)})
             ELSE e.score = MeanOf(Scores(e.output))

\* A scored entry with a weighted and an unweighted FieldResult, the unweighted
\* one having the lower score
C1_Witness ==
  /\ Scored
  /\ \E p \in 1..Len(results) :
       LET e == EntryAt(p)
       IN /\ WeightedFields(e.output) # {}
          /\ \E k \in 1..Len(e.output) :
               /\ k \notin WeightedFields(e.output)
               /\ RLt(e.output[k].score, e.score)

---------------------------------------------------------------------------
(* C2 *)

KeysStored == pc \in {"score", "sort", "format", "done"} /\ Structured /\ Len(list) > 0

ValidWeighted(key) == ~key.isString /\ RLt(Zero, key.weight) /\ RLeq(key.weight, One)

\* C2, as claimed: the weight stored for a key { name, weight: w }, 0 < w <= 1,
\* is w, and 1 for a plain key.
C2_StoredIsConfigured ==
  KeysStored =>
    \A m \in 1..Len(options.keys) :
      LET key == options.keys[m]
      IN /\ key.isString => weights[key.name] = One
         /\ ValidWeighted(key) => weights[key.name] = key.weight

\* C2, amended: the weight stored for a key { name, weight: w }, 0 < w <= 1, is
\* 1 - w for w < 1 and 1 for w = 1, and 1 for a plain key; an entry whose only
\* FieldResult has score s and a key of weight w < 1 gets the score s x (1 - w).
C2_StoredIsComplement ==
  KeysStored =>
    /\ \A m \in 1..Len(options.keys) :
         LET key == options.keys[m]
         IN /\ key.isString => weights[key.name] = One
            /\ ValidWeighted(key) =>
                 weights[key.name] = IF key.weight = One THEN One
                                     ELSE RSub(One, key.weight)
    /\ Scored =>
         \A p \in 1..Len(results), m \in 1..Len(options.keys) :
           LET e == EntryAt(p)
               key == options.keys[m]
           IN (/\ Len(e.output) = 1
               /\ e.output[1].key = key.name
               /\ ValidWeighted(key)
               /\ key.weight # One)
              => e.score = RMul(e.output[1].score, RSub(One, key.weight))

\* A scored entry whose only FieldResult has a key of weight 3/10
C2_Witness ==
  /\ Scored
  /\ \E p \in 1..Len(results), m \in 1..Len(options.keys) :
       /\ Len(EntryAt(p).output) = 1
       /\ EntryAt(p).output[1].key = options.keys[m].name
       /\ ~options.keys[m].isString
       /\ options.keys[m].weight = R(3, 10)
       /\ EntryAt(p).score = RMul(EntryAt(p).output[1].score, R(7, 10))

---------------------------------------------------------------------------
(* C3 *)

HasInvalidWeight ==
  \E m \in 1..Len(options.keys) :
    /\ ~options.keys[m].isString
    /\ RLeq(options.keys[m].weight, Zero) \/ RLt(One, options.keys[m].weight)

\* C3, as claimed: with a key whose weight w has w <= 0 or w > 1, search does not
\* return a result: it fails, whatever the collection.
C3_InvalidWeightRejected == HasInvalidWeight => pc # "done"

---------------------------------------------------------------------------
(* C4 *)

\* C4, as claimed: on a collection of strings search returns a list holding one
\* result per matching element, each with its score computed, in ascending
\* order of score when shouldSort is set.
C4_FlatRanked ==
  (pc = "done" /\ IsFlat(list)) =>
    /\ IsArray(ret)
    /\ Len(ret.elems) = Cardinality({r \in 1..Len(list) : Passes(list[r])})
    /\ \A p \in 1..Len(results) : EntryAt(p).score # Undef
    /\ options.shouldSort =>
         \A p \in 1..(Len(results) - 1) : RLeq(EntryAt(p).score, EntryAt(p + 1).score)

---------------------------------------------------------------------------
(* C5 *)

MatchAll == options.tokenize /\ options.matchAllTokens

RECURSIVE TextsOfKeys(_, _)
\* The texts of the first m keys of a record
TextsOfKeys(item, m) ==
  IF m = 0 THEN <<>>
  ELSE TextsOfKeys(item, m - 1) \o AllTexts(item, options.keys[m].name)

\* The texts of record r that _search has analyzed
AnalyzedTexts(r) ==
  IF Structured THEN TextsOfKeys(list[r], KeysDone(r))
  ELSE IF pc = "flat" /\ r >= i THEN <<>> ELSE <<list[r]>>

\* Every analyzed text of record r lacks a match for some query token
AllExcluded(r) ==
  \A k \in 1..Len(AnalyzedTexts(r)) : ~AllTokensMatch(AnalyzedTexts(r)[k])

\* Lines 186-209 gave record r an entry for its children
EnteredByChildren(r) ==
  /\ Structured
  /\ pc \notin {"keys", "error"} \/ r < i
  /\ Recurses(list[r])
  /\ resultMap[r] # 0
  /\ heap[resultMap[r]].output = <<>>

\* C5, as claimed: with tokenize and matchAllTokens, a text gives a FieldResult
\* only if every query token matches one of its words, and a record all of whose
\* texts are excluded is not in the results.
C5_ExcludedRecordAbsent ==
  (MatchAll /\ Running) =>
    \A r \in 1..Len(list) :
      /\ Len(OutputOf(r)) =
           Len(SelectSeq(AnalyzedTexts(r), LAMBDA v : AllTokensMatch(v)))
      /\ AllExcluded(r) => resultMap[r] = 0

\* Lines 186-209 have run for record r
RecursionDone(r) ==
  \/ pc \in {"score", "sort", "format", "done"}
  \/ pc \in {"keys", "recurse", "error"} /\ r < i

RECURSIVE ReturnsResults(_)
\* The search over the collection elems returns a list that is not empty: the
\* collection is one of records, not of strings, and one of its records has a
\* text that yields a FieldResult or, being searched recursively, a child
\* collection whose search returns such a list
ReturnsResults(elems) ==
  /\ Len(elems) > 0
  /\ ~IsString(elems[1])
  /\ \E k \in 1..Len(elems) :
       /\ ~IsString(elems[k])
       /\ \/ ExpectedFields(elems[k], Len(options.keys)) # <<>>
          \/ /\ Recurses(elems[k])
             /\ ReturnsResults(Prop(elems[k], RecursiveKey).elems)

\* Record r has a child collection, of records, that is searched recursively
\* and whose search returns a list that is not empty
ChildrenReturnResults(r) ==
  /\ Structured
  /\ Recurses(list[r])
  /\ ReturnsResults(Prop(list[r], RecursiveKey).elems)

\* Record r is in the results, and in the list the call returns once it has
RecordPresent(r) ==
  /\ resultMap[r] # 0
  /\ \E p \in 1..Len(results) : results[p] = resultMap[r]
  /\ (pc = "done" /\ Structured) => Cardinality(PositionsOf(r)) = 1

\* Record r is not in the results, nor in the list the call returns
RecordAbsent(r) ==
  /\ resultMap[r] = 0
  /\ (pc = "done" /\ Structured) => PositionsOf(r) = {}

\* C5, amended: with tokenize and matchAllTokens, a text gives a FieldResult
\* only if every query token matches one of its words.  A record all of whose
\* texts are excluded has no FieldResult.  Once the recursion step has run for
\* it, it is in the results, with an empty output, exactly when recursion is
\* enabled and its child collection is a collection of records whose search
\* returns a list that is not empty; in every other case (no recursion, no
\* children, children that return no result, children that are plain strings)
\* and before that step it is absent.
C5_ExcludedRecordHasNoField ==
  (MatchAll /\ Running) =>
    \A r \in 1..Len(list) :
      /\ Len(OutputOf(r)) =
           Len(SelectSeq(AnalyzedTexts(r), LAMBDA v : AllTokensMatch(v)))
      /\ AllExcluded(r) =>
           /\ OutputOf(r) = <<>>
           /\ IF RecursionDone(r) /\ ChildrenReturnResults(r)
                THEN RecordPresent(r)
                ELSE RecordAbsent(r)

\* The call is over for three records whose text the full pattern and the
\* first of two query tokens match and the second token does not: the first,
\* with a matching child record, is returned with an empty output; the second,
\* whose child record is excluded too, and the third, whose children are
\* matching strings, are absent
C5_Witness ==
  /\ MatchAll
  /\ pc = "done"
  /\ pattern = 2
  /\ Len(list) = 3
  /\ \A r \in 1..3 :
       /\ Len(AnalyzedTexts(r)) = 1
       /\ AnalyzedTexts(r)[1].full.isMatch
       /\ TokenHits(AnalyzedTexts(r)[1], 1)
       /\ ~TokenHits(AnalyzedTexts(r)[1], 2)
       /\ Recurses(list[r])
  /\ ChildrenReturnResults(1) /\ RecordPresent(1) /\ OutputOf(1) = <<>>
  /\ ~ChildrenReturnResults(2) /\ RecordAbsent(2)
  /\ ~IsString(list[2].children.elems[1])
  /\ IsString(list[3].children.elems[1])
  /\ Passes(list[3].children.elems[1])
  /\ ~ChildrenReturnResults(3) /\ RecordAbsent(3)

---------------------------------------------------------------------------
(* C6 *)

\* C6: the FieldResults of every record carry, in order, the scores of its texts
\* that yield one: the full-text score without tokenize, and the mean of the
\* full-text score and the token average with tokenize.
C6_FieldScore ==
  Running =>
    \A r \in 1..Len(list) : KeyScores(OutputOf(r)) = ExpectedOutput(r)

\* A FieldResult of a text with two words, of which a query token matches one
\* and misses the other, under tokenize without matchAllTokens
C6_Witness ==
  /\ pc = "done"
  /\ options.tokenize
  /\ ~options.matchAllTokens
  /\ \E r \in 1..Len(list) :
       /\ Len(OutputOf(r)) = 1
       /\ Len(AnalyzedTexts(r)) = 1
       /\ LET v == AnalyzedTexts(r)[1]
          IN /\ Len(v.words) = 2
             /\ v.words[1].tok[1].isMatch
             /\ ~v.words[2].tok[1].isMatch
             /\ OutputOf(r)[1].score # v.full.score

---------------------------------------------------------------------------
(* C7 *)

RECURSIVE HasMatch(_)
\* The collection holds a match: a matching text, or a record with a matching
\* field or, when recursion is enabled, with a match among its children
HasMatch(elems) ==
  \E k \in 1..Len(elems) :
    IF IsString(elems[k]) THEN Passes(elems[k])
    ELSE \/ ExpectedFields(elems[k], Len(options.keys)) # <<>>
         \/ /\ Recurses(elems[k])
            /\ HasMatch(Prop(elems[k], RecursiveKey).elems)

\* The returned item at p is record r with the value of the recursion key
\* replaced by kids
IsRecordWith(p, r, kids) ==
  /\ DOMAIN ReturnedItem(p) = DOMAIN list[r]
  /\ \A name \in DOMAIN list[r] :
       ReturnedItem(p)[name] = IF name = RecursiveKey THEN kids
                               ELSE list[r][name]

\* C7, as claimed (with no id projection): with recursion enabled, a record with
\* no field match is returned exactly once, with the result of the search over
\* its children under the recursion key and its other properties as they are,
\* when its child collection holds a match, and is not returned otherwise.
C7_ChildOnlyMatch ==
  (pc = "done" /\ Structured /\ options.recursive.enabled /\ options.id = "") =>
    \A r \in 1..Len(list) :
      ExpectedFields(list[r], Len(options.keys)) = <<>> =>
        IF Recurses(list[r]) /\ HasMatch(Prop(list[r], RecursiveKey).elems)
          THEN /\ Cardinality(PositionsOf(r)) = 1
               /\ \A p \in PositionsOf(r) :
                    IsRecordWith(p, r,
                      SearchFn(Prop(list[r], RecursiveKey).elems).ret)
          ELSE PositionsOf(r) = {}

---------------------------------------------------------------------------
(* C8 *)

\* C8, as claimed: with shouldSort, the results of a search over records are
\* returned in non-decreasing order of score.
C8_SortedByScore ==
  (pc = "done" /\ Structured /\ options.shouldSort) =>
    \A p \in 1..(Len(results) - 1) : RLeq(EntryAt(p).score, EntryAt(p + 1).score)

---------------------------------------------------------------------------
(* C9 *)

\* C9: no step of a search call (any step but set, the only one that ends
\* with no call made) changes the collection, its records or their child
\* collections, no step changes the options, and a second search of the same
\* collection with the same pattern returns what the first returned.
C9_InputNotMutated ==
  [][/\ pc' # "idle" => list' = list
     /\ options' = options
     /\ (pc' = "done" /\ run' = 2) => ret' = prevRet']_vars

\* A second search has returned, with children attached to a record's result
C9_Witness ==
  /\ pc = "done"
  /\ run = 2
  /\ Structured
  /\ \E r \in 1..Len(list) :
       /\ Recurses(list[r])
       /\ resultMap[r] # 0
       /\ heap[resultMap[r]].output # <<>>
  /\ \E r \in 1..Len(list) : EnteredByChildren(r)

---------------------------------------------------------------------------
(* C10 *)

RECURSIVE KeysOfFields(_, _)
\* The keys of the FieldResults the first m keys are to give a record, in order
KeysOfFields(item, m) ==
  IF m = 0 THEN <<>>
  ELSE KeysOfFields(item, m - 1) \o
         [k \in 1..Len(PassingTexts(item, options.keys[m].name)) |-> options.keys[m].name]

\* The keys of the FieldResults record r is to have at this point of the call
ExpectedKeys(r) ==
  IF Structured
    THEN KeysOfFields(list[r], KeysDone(r))
    ELSE IF (pc = "flat" /\ r >= i) \/ ~Passes(list[r]) THEN <<>> ELSE <<"">>

\* The identity of the record an entry is for
RecordOf(e) == IF e.item.type = "object" THEN e.item.id ELSE e.item

IdOf(r) == IF Structured THEN list[r].id ELSE Num(r - 1)

\* C10: at every point of a _search run, results holds one entry per record that
\* has one, which is the entry resultMap gives for the record's index; the
\* entry's output holds one FieldResult per matching text of the record, in key
\* order; the returned list holds no record twice.
C10_OneEntryPerRecord ==
  Running =>
    /\ \A p, q \in 1..Len(results) : results[p] = results[q] => p = q
    /\ \A p \in 1..Len(results) : \E r \in 1..Len(list) : resultMap[r] = results[p]
    /\ \A r \in 1..Len(list) :
         resultMap[r] # 0 =>
           /\ \E p \in 1..Len(results) : results[p] = resultMap[r]
           /\ RecordOf(heap[resultMap[r]]) = IdOf(r)
           /\ \A q \in 1..Len(list) : resultMap[q] = resultMap[r] => q = r
           /\ [k \in 1..Len(OutputOf(r)) |-> OutputOf(r)[k].key] = ExpectedKeys(r)
    /\ (pc = "done" /\ IsArray(ret)) =>
         Len(ret.elems) = Cardinality({r \in 1..Len(list) : resultMap[r] # 0})

\* The call is over; a record with two matching texts under one key and children
\* attached has a single entry, with both FieldResults
C10_Witness ==
  /\ pc = "done"
  /\ Structured
  /\ \E r \in 1..Len(list) :
       /\ Recurses(list[r])
       /\ resultMap[r] # 0
       /\ Len(OutputOf(r)) >= 2
       /\ Len(heap) > Len(results)

====
